---- MODULE Spec2Model ----
(***************************************************************************)
(* Model of mcsema/BC/DeadRegElimination.cpp: the register layout tables,  *)
(* the pointer offset propagation (GetOffsets), the block-local backward   *)
(* scan (LocalOptimizeBlock) and the driver (OptimizeFunction).            *)
(*                                                                         *)
(* IR values are integers: 0 is the state-pointer argument, n > 0 is the   *)
(* result of instruction n of the function, n < 0 is a value defined       *)
(* outside the modelled instructions (a constant, another argument).       *)
(***************************************************************************)
EXTENDS Integers, Sequences, FiniteSets, TLC

VARIABLES
  func,             \* the function: its instructions in layout order
  offset,           \* OffsetMap: value id -> byte offset (DOMAIN = mapped)
  made_progress,    \* GetOffsets: flag of the current pass
  cursor,           \* GetOffsets: next instruction of the current pass
  passes,           \* GetOffsets: full passes finished so far
  inst_rev,         \* LocalOptimizeBlock: instruction the scan visits next
  live_on_entry,    \* LocalOptimizeBlock: state.live_on_entry
  killed_in_block,  \* LocalOptimizeBlock: state.killed_in_block
  local_dead,       \* LocalOptimizeBlock: local_dead
  load_forwarding,  \* LocalOptimizeBlock: reg -> pending load (non-null only)
  to_remove,        \* LocalOptimizeBlock: to_remove
  use,              \* def-use edges: what the users of load i / store i's operand 0 now refer to
  erased,           \* instructions erased from their parent block
  gBlockState,      \* block -> persisted BlockState
  cur_block,        \* OptimizeFunction: block being handed to LocalOptimizeBlock
  events,           \* OptimizeFunction: calls made so far, in order
  layout,           \* InitDeadRegisterEliminator: its locals and the three global tables
  pc

vars == <<func, offset, made_progress, cursor, passes, inst_rev, live_on_entry,
          killed_in_block, local_dead, load_forwarding, to_remove, use, erased,
          gBlockState, cur_block, events, layout, pc>>

-----------------------------------------------------------------------------
(* Bounds of the model.                                                    *)
MaxLen == 3       \* longest block handed to LocalOptimizeBlock
MaxFields == 3    \* most fields of the register-state structure
MaxInsts == 3     \* most instructions of a function handed to GetOffsets

-----------------------------------------------------------------------------
(* Types and the data layout.                                              *)
Types == {"i8", "i16", "half"}

TypeStoreSize(ty) ==
  CASE ty = "i8" -> 1
    [] ty = "i16" -> 2
    [] ty = "half" -> 2

\* ArchRegStateStructType(): store sizes of the fields, in declaration order.
StateFields == <<2, 1>>

Repeat(x, n) == [i \in 1..n |-> x]

\* The three byte-indexed tables; byte offset o is entry o + 1.
RECURSIVE BuildTables(_, _, _, _)
BuildTables(fields, reg_offset, total_size, t) ==
  IF fields = <<>> THEN t
  ELSE LET store_size == Head(fields)
       IN BuildTables(Tail(fields), reg_offset + 1, total_size + store_size,
            [reg   |-> t.reg \o Repeat(reg_offset, store_size),
             size  |-> t.size \o Repeat(store_size, store_size),
             begin |-> t.begin \o Repeat(total_size, store_size)])

InitDeadRegisterEliminator(fields) ==
  BuildTables(fields, 0, 0, [reg |-> <<>>, size |-> <<>>, begin |-> <<>>])

Tables == InitDeadRegisterEliminator(StateFields)

gByteOffsetToRegOffset(o) == Tables.reg[o + 1]
gByteOffsetToRegSize(o) == Tables.size[o + 1]
gByteOffsetToBeginOffset(o) == Tables.begin[o + 1]

TotalSize == Len(Tables.reg)
Offsets == 0 .. (TotalSize - 1)
Regs == {gByteOffsetToRegOffset(o) : o \in Offsets}

-----------------------------------------------------------------------------
(* Instructions and values.                                                *)
state_ptr == 0

\* Values defined outside the modelled instructions, with their types.
ExtA == 0 - 1
ExtB == 0 - 2
ExtC == 0 - 3
ExtD == 0 - 4
ExtPtr == 0 - 5
ExtVals == {ExtA, ExtB, ExtC, ExtD}

ExtType(v) ==
  CASE v = ExtA -> "i16"
    [] v = ExtB -> "i16"
    [] v = ExtC -> "half"
    [] v = ExtD -> "i8"

Inst(kind, ptr, disp, ty, val, ops) ==
  [kind |-> kind, ptr |-> ptr, disp |-> disp, ty |-> ty, val |-> val, ops |-> ops]

LoadInst(ptr, ty) == Inst("load", ptr, <<>>, ty, 0, <<>>)
StoreInst(ptr, val) == Inst("store", ptr, <<>>, "void", val, <<>>)
CallInst == Inst("call", 0, <<>>, "void", 0, <<>>)
OtherInst == Inst("other", 0, <<>>, "void", 0, <<>>)
BranchInst == Inst("br", 0, <<>>, "void", 0, <<>>)
\* disp is <<d>> for a constant displacement d, <<>> for one that is not constant.
GEPConst(base, d) == Inst("gep", base, <<d>>, "ptr", 0, <<>>)
GEPNonConst(base) == Inst("gep", base, <<>>, "ptr", 0, <<>>)
BitCastInst(base) == Inst("cast", base, <<>>, "ptr", 0, <<>>)
PHINode(ty, ops) == Inst("phi", 0, <<>>, ty, 0, ops)

\* llvm::Value::getType() of a value, given the function f.
TypeOf(f, v) == IF v < 0 THEN ExtType(v) ELSE f[v].ty

-----------------------------------------------------------------------------
(* Small maps with std::unordered_map's operations.                        *)
SetEntry(m, k, v) == [x \in (DOMAIN m) \cup {k} |-> IF x = k THEN v ELSE m[x]]
DelEntry(m, k) == [x \in (DOMAIN m) \ {k} |-> m[x]]
EmptyMap == [x \in {} |-> 0]

\* llvm::Value::replaceAllUsesWith: every use of old now refers to new.
ReplaceAllUsesWith(u, old, new) ==
  [k \in DOMAIN u |-> IF u[k] = old THEN new ELSE u[k]]

\* The def-use edges of a function as built: the users of a load refer to the
\* load, operand 0 of a store is the stored value.
InitialUse(f) ==
  [k \in 1..Len(f) |->
     IF f[k].kind = "load" THEN k
     ELSE IF f[k].kind = "store" THEN f[k].val
     ELSE 0]

-----------------------------------------------------------------------------
(* LocalOptimizeBlock: one iteration of the reverse loop, on the record    *)
(* st of the loop's variables.                                             *)
ScanState(live, killed, dead, fwd, rem, u) ==
  [live_on_entry |-> live, killed_in_block |-> killed, local_dead |-> dead,
   load_forwarding |-> fwd, to_remove |-> rem, use |-> u]

InitialScanState(u) == ScanState({}, {}, {}, EmptyMap, {}, u)

\* Variant: the call forgets the liveness but keeps the pending loads.
OnCallKeepsForwarding(st) ==
  [st EXCEPT !.live_on_entry = {}, !.killed_in_block = {}, !.local_dead = {}]

\* Variant: the call does not reset killed_in_block (line 165 left out).
OnCallKeepsKilled(st) ==
  [st EXCEPT !.live_on_entry = {}, !.local_dead = {}, !.load_forwarding = EmptyMap]

\* Lines 163-168: a call resets everything known so far.
OnCall(st) ==
  [st EXCEPT !.live_on_entry = {}, !.killed_in_block = {},
             !.local_dead = {}, !.load_forwarding = EmptyMap]

\* Line 183: a pending load is forwarded from this load.
LoadToLoadForwards(f, st, load, reg_num) ==
  /\ reg_num \in DOMAIN st.load_forwarding
  /\ TypeOf(f, st.load_forwarding[reg_num]) = TypeOf(f, load)

\* Variant: the load does not clear local_dead (line 190 left out).
OnLoadKeepsDead(f, st, load, reg_num) ==
  LET fwd == LoadToLoadForwards(f, st, load, reg_num)
      next_load == st.load_forwarding[reg_num]
  IN [live_on_entry   |-> st.live_on_entry \cup {reg_num},
      killed_in_block |-> st.killed_in_block,
      local_dead      |-> st.local_dead,
      load_forwarding |-> SetEntry(st.load_forwarding, reg_num, load),
      to_remove       |-> IF fwd THEN st.to_remove \cup {next_load} ELSE st.to_remove,
      use             |-> IF fwd THEN ReplaceAllUsesWith(st.use, next_load, load)
                          ELSE st.use]

\* Variant: the forwarded load is marked for removal, its uses are not rewritten
\* (line 184 left out).
OnLoadNoReplace(f, st, load, reg_num) ==
  LET fwd == LoadToLoadForwards(f, st, load, reg_num)
      next_load == st.load_forwarding[reg_num]
  IN [live_on_entry   |-> st.live_on_entry \cup {reg_num},
      killed_in_block |-> st.killed_in_block,
      local_dead      |-> st.local_dead \ {reg_num},
      load_forwarding |-> SetEntry(st.load_forwarding, reg_num, load),
      to_remove       |-> IF fwd THEN st.to_remove \cup {next_load} ELSE st.to_remove,
      use             |-> st.use]

\* Variant: the load being visited is marked for removal instead of the
\* pending one (line 185 with the wrong instruction).
OnLoadRemovesSelf(f, st, load, reg_num) ==
  LET fwd == LoadToLoadForwards(f, st, load, reg_num)
      next_load == st.load_forwarding[reg_num]
  IN [live_on_entry   |-> st.live_on_entry \cup {reg_num},
      killed_in_block |-> st.killed_in_block,
      local_dead      |-> st.local_dead \ {reg_num},
      load_forwarding |-> SetEntry(st.load_forwarding, reg_num, load),
      to_remove       |-> IF fwd THEN st.to_remove \cup {load} ELSE st.to_remove,
      use             |-> IF fwd THEN ReplaceAllUsesWith(st.use, next_load, load)
                          ELSE st.use]

\* Lines 178-190.
OnLoad(f, st, load, reg_num) ==
  LET fwd == LoadToLoadForwards(f, st, load, reg_num)
      next_load == st.load_forwarding[reg_num]
  IN [live_on_entry   |-> st.live_on_entry \cup {reg_num},
      killed_in_block |-> st.killed_in_block,
      local_dead      |-> st.local_dead \ {reg_num},
      load_forwarding |-> SetEntry(st.load_forwarding, reg_num, load),
      to_remove       |-> IF fwd THEN st.to_remove \cup {next_load} ELSE st.to_remove,
      use             |-> IF fwd THEN ReplaceAllUsesWith(st.use, next_load, load)
                          ELSE st.use]

\* Line 199.
IsDeadStore(st, reg_num) == reg_num \in st.local_dead

\* Variant: only a store wider than the register counts as partial.
IsPartialStoreGreater(size, reg_size) == size > reg_size

\* Line 204.
IsPartialStore(size, reg_size) == size # reg_size

\* Variant: forwarding compares store sizes instead of types.
StoreToLoadForwardsBySize(f, st, reg_num, stored_val_type) ==
  /\ reg_num \in DOMAIN st.load_forwarding
  /\ TypeStoreSize(TypeOf(f, st.load_forwarding[reg_num])) = TypeStoreSize(stored_val_type)

\* Line 215: a pending load is forwarded from the stored value.
StoreToLoadForwards(f, st, reg_num, stored_val_type) ==
  /\ reg_num \in DOMAIN st.load_forwarding
  /\ TypeOf(f, st.load_forwarding[reg_num]) = stored_val_type

\* Lines 192-222.
OnStore(f, st, store, reg_num, reg_size) ==
  LET stored_val == st.use[store]
      stored_val_type == TypeOf(f, stored_val)
      size == TypeStoreSize(stored_val_type)
      next_load == st.load_forwarding[reg_num]
      cleared == DelEntry(st.load_forwarding, reg_num)
  IN IF IsDeadStore(st, reg_num)
       THEN [st EXCEPT !.to_remove = @ \cup {store}, !.load_forwarding = cleared]
     ELSE IF IsPartialStore(size, reg_size)
       THEN [st EXCEPT !.live_on_entry = @ \cup {reg_num},
                       !.local_dead = @ \ {reg_num},
                       !.load_forwarding = cleared]
     ELSE LET fwd == StoreToLoadForwards(f, st, reg_num, stored_val_type)
          IN [live_on_entry   |-> st.live_on_entry \ {reg_num},
              killed_in_block |-> st.killed_in_block \cup {reg_num},
              local_dead      |-> st.local_dead \cup {reg_num},
              load_forwarding |-> cleared,
              to_remove       |-> IF fwd THEN st.to_remove \cup {next_load}
                                  ELSE st.to_remove,
              use             |-> IF fwd
                                  THEN ReplaceAllUsesWith(st.use, next_load, stored_val)
                                  ELSE st.use]

\* Lines 156-222: the body of the loop for instruction inst of f under map.
ScanStep(f, map, st, inst) ==
  LET st1 == IF f[inst].kind = "call" THEN OnCall(st) ELSE st
  IN IF inst \notin DOMAIN map THEN st1
     ELSE LET reg_num == gByteOffsetToRegOffset(map[inst])
              reg_size == gByteOffsetToRegSize(map[inst])
          IN IF f[inst].kind = "load" THEN OnLoad(f, st1, inst, reg_num)
             ELSE IF f[inst].kind = "store" THEN OnStore(f, st1, inst, reg_num, reg_size)
             ELSE st1

\* Lines 155-223: the whole reverse loop over instructions lo..hi.
RECURSIVE ScanBlock(_, _, _, _, _)
ScanBlock(f, map, st, lo, hi) ==
  IF hi < lo THEN st
  ELSE ScanBlock(f, map, ScanStep(f, map, st, hi), lo, hi - 1)

\* Lines 143-223: the scan of the block lo..hi of f, from the def-use edges u.
LocalOptimizeBlock(f, map, u, lo, hi) == ScanBlock(f, map, InitialScanState(u), lo, hi)

-----------------------------------------------------------------------------
(* The blocks handed to LocalOptimizeBlock, each with its entries of the   *)
(* Offset Map.  Pointer operands are computed outside the block.           *)
Item(i, m) == [i |-> i, m |-> m]

\* An access of type ty at byte offset o that stays inside one register.
AccessOK(o, ty) ==
  /\ o + TypeStoreSize(ty) - 1 \in Offsets
  /\ gByteOffsetToRegOffset(o + TypeStoreSize(ty) - 1) = gByteOffsetToRegOffset(o)

\* A store of a whole register.
WholeReg(o, ty) ==
  /\ AccessOK(o, ty)
  /\ gByteOffsetToBeginOffset(o) = o
  /\ gByteOffsetToRegSize(o) = TypeStoreSize(ty)

LoadItems ==
  {Item(LoadInst(ExtPtr, ty), {o}) : <<o, ty>> \in
     {x \in Offsets \X Types : AccessOK(x[1], x[2])}}

StoreItems ==
  {Item(StoreInst(ExtPtr, v), {o}) : <<o, v>> \in
     {x \in Offsets \X ExtVals : AccessOK(x[1], ExtType(x[2]))}}

\* Stores of the result of an earlier load of the block b.
StoreBackItems(b) ==
  {Item(StoreInst(ExtPtr, j), {o}) : <<o, j>> \in
     {x \in Offsets \X (1..Len(b)) :
        /\ b[x[2]].i.kind = "load"
        /\ WholeReg(x[1], b[x[2]].i.ty)}}

PlainItems ==
  {Item(CallInst, {}), Item(OtherInst, {}), Item(GEPConst(state_ptr, 0), {0})}

ItemsAfter(b) == LoadItems \cup StoreItems \cup PlainItems \cup StoreBackItems(b)

FuncOfBlock(b) == [k \in 1..Len(b) |-> b[k].i]

MapOfBlock(b) ==
  [v \in {state_ptr} \cup {k \in 1..Len(b) : b[k].m # {}} |->
     IF v = state_ptr THEN 0 ELSE CHOOSE o \in b[v].m : TRUE]

-----------------------------------------------------------------------------
(* Basic blocks of a function: a block ends at its terminator ("br").      *)
RECURSIVE SplitBlocks(_, _, _, _)
SplitBlocks(f, start, k, acc) ==
  IF k > Len(f) THEN acc
  ELSE IF f[k].kind = "br" \/ k = Len(f)
       THEN SplitBlocks(f, k + 1, k + 1, Append(acc, <<start, k>>))
       ELSE SplitBlocks(f, start, k + 1, acc)

\* Sequence of <<first, last>> instruction of each block.
BlockRanges(f) == SplitBlocks(f, 1, 1, <<>>)

BlockState(st) ==
  [live_on_entry |-> st.live_on_entry, killed_in_block |-> st.killed_in_block]

-----------------------------------------------------------------------------
(* Specification Spec: LocalOptimizeBlock on one block, one loop iteration *)
(* per step.                                                               *)
Init ==
  /\ func = <<>>
  /\ offset = EmptyMap
  /\ made_progress = FALSE
  /\ cursor = 0
  /\ passes = 0
  /\ inst_rev = 0
  /\ live_on_entry = {}
  /\ killed_in_block = {}
  /\ local_dead = {}
  /\ load_forwarding = EmptyMap
  /\ to_remove = {}
  /\ use = <<>>
  /\ erased = {}
  /\ gBlockState = EmptyMap
  /\ cur_block = 0
  /\ events = <<>>
  /\ layout = [state_type |-> <<>>, field |-> 0, i |-> 0, reg_offset |-> 0,
               total_size |-> 0, reg |-> <<>>, size |-> <<>>, begin |-> <<>>]
  /\ pc = "idle"

\* Lines 143-155: LocalOptimizeBlock is entered with block b and its map.
EnterBlock(b) ==
  /\ func' = FuncOfBlock(b)
  /\ offset' = MapOfBlock(b)
  /\ inst_rev' = Len(b)
  /\ live_on_entry' = {}
  /\ killed_in_block' = {}
  /\ local_dead' = {}
  /\ load_forwarding' = EmptyMap
  /\ to_remove' = {}
  /\ use' = InitialUse(FuncOfBlock(b))
  /\ cur_block' = 1
  /\ pc' = "scan"
  /\ UNCHANGED <<made_progress, cursor, passes, erased, gBlockState, events, layout>>

\* Every block of 1..MaxLen instructions that extends b by at most n.
RECURSIVE EnterBlockFrom(_, _)
EnterBlockFrom(b, n) ==
  \/ b # <<>> /\ EnterBlock(b)
  \/ n > 0 /\ \E it \in ItemsAfter(b) : EnterBlockFrom(Append(b, it), n - 1)

EnterLocalOptimizeBlock == pc = "idle" /\ EnterBlockFrom(<<>>, MaxLen)

Cur == ScanState(live_on_entry, killed_in_block, local_dead, load_forwarding,
                 to_remove, use)

BlockFirst == BlockRanges(func)[cur_block][1]
BlockLast == BlockRanges(func)[cur_block][2]

Scanning == pc = "scan" /\ inst_rev >= BlockFirst

\* The loop body on the instruction under inst_rev, then ++inst_rev.
Visit ==
  LET st == ScanStep(func, offset, Cur, inst_rev)
  IN /\ live_on_entry' = st.live_on_entry
     /\ killed_in_block' = st.killed_in_block
     /\ local_dead' = st.local_dead
     /\ load_forwarding' = st.load_forwarding
     /\ to_remove' = st.to_remove
     /\ use' = st.use
     /\ inst_rev' = inst_rev - 1
     /\ UNCHANGED <<func, offset, made_progress, cursor, passes, erased,
                    gBlockState, cur_block, events, pc, layout>>

Mapped(i) == i \in DOMAIN offset
RegOf(i) == gByteOffsetToRegOffset(offset[i])

VisitCall == Scanning /\ func[inst_rev].kind = "call" /\ Visit

VisitUnmapped ==
  Scanning /\ func[inst_rev].kind # "call" /\ ~Mapped(inst_rev) /\ Visit

VisitLoad == Scanning /\ Mapped(inst_rev) /\ func[inst_rev].kind = "load" /\ Visit

VisitDeadStore ==
  /\ Scanning /\ Mapped(inst_rev) /\ func[inst_rev].kind = "store"
  /\ IsDeadStore(Cur, RegOf(inst_rev))
  /\ Visit

VisitPartialStore ==
  /\ Scanning /\ Mapped(inst_rev) /\ func[inst_rev].kind = "store"
  /\ ~IsDeadStore(Cur, RegOf(inst_rev))
  /\ IsPartialStore(TypeStoreSize(TypeOf(func, use[inst_rev])),
                    gByteOffsetToRegSize(offset[inst_rev]))
  /\ Visit

VisitFullStore ==
  /\ Scanning /\ Mapped(inst_rev) /\ func[inst_rev].kind = "store"
  /\ ~IsDeadStore(Cur, RegOf(inst_rev))
  /\ ~IsPartialStore(TypeStoreSize(TypeOf(func, use[inst_rev])),
                     gByteOffsetToRegSize(offset[inst_rev]))
  /\ Visit

VisitMappedOther ==
  /\ Scanning /\ Mapped(inst_rev)
  /\ func[inst_rev].kind \notin {"load", "store", "call"}
  /\ Visit

\* Lines 225-229: erase the marked instructions, store the BlockState.
EraseAndStore ==
  /\ pc = "scan" /\ inst_rev < BlockFirst
  /\ erased' = erased \cup to_remove
  /\ gBlockState' = SetEntry(gBlockState, cur_block, BlockState(Cur))
  /\ pc' = "done"
  /\ UNCHANGED <<func, offset, made_progress, cursor, passes, inst_rev,
                 live_on_entry, killed_in_block, local_dead, load_forwarding,
                 to_remove, use, cur_block, events, layout>>

Next ==
  \/ EnterLocalOptimizeBlock
  \/ VisitCall
  \/ VisitUnmapped
  \/ VisitLoad
  \/ VisitDeadStore
  \/ VisitPartialStore
  \/ VisitFullStore
  \/ VisitMappedOther
  \/ EraseAndStore

Spec == Init /\ [][Next]_vars

-----------------------------------------------------------------------------
(* Vocabulary of the claims about LocalOptimizeBlock (program order is the *)
(* index order of func; the scan has visited the instructions > inst_rev). *)
InScan == pc \in {"scan", "done"}
Visited == IF InScan THEN (inst_rev + 1) .. Len(func) ELSE {}
JustVisited(i) == pc = "scan" /\ inst_rev = i - 1 /\ i \in 1..Len(func)

IsCall(i) == func[i].kind = "call"
IsMappedLoad(i) == Mapped(i) /\ func[i].kind = "load"
IsMappedStore(i) == Mapped(i) /\ func[i].kind = "store"
StoredType(i) == TypeOf(func, func[i].val)
IsFullWidthStore(i) ==
  IsMappedStore(i) /\ TypeStoreSize(StoredType(i)) = gByteOffsetToRegSize(offset[i])
IsPartialWidthStore(i) ==
  IsMappedStore(i) /\ TypeStoreSize(StoredType(i)) # gByteOffsetToRegSize(offset[i])
AccessesReg(i, r) == (IsMappedLoad(i) \/ IsMappedStore(i)) /\ RegOf(i) = r
Between(i, j) == (i + 1) .. (j - 1)
NoCallBetween(i, j) == \A k \in Between(i, j) : ~IsCall(k)
NoLoadBetween(i, j, r) == \A k \in Between(i, j) : ~(IsMappedLoad(k) /\ RegOf(k) = r)
NoStoreBetween(i, j, r) == \A k \in Between(i, j) : ~(IsMappedStore(k) /\ RegOf(k) = r)
NoAccessBetween(i, j, r) == \A k \in Between(i, j) : ~AccessesReg(k, r)

\* A later full-width store to the register of store i, with no load of that
\* register and no call in between.
KilledLater(i) ==
  \E j \in (i + 1) .. Len(func) :
    /\ IsFullWidthStore(j) /\ RegOf(j) = RegOf(i)
    /\ NoLoadBetween(i, j, RegOf(i)) /\ NoCallBetween(i, j)

-----------------------------------------------------------------------------
(* Execution of a block on the register state, byte by byte.  Bytes are    *)
(* symbolic: <<"init", o, 0>> is byte o of the state on entry, <<"ext", v, *)
(* k>> is byte k of the outside value v, <<"call", c, o>> is byte o as     *)
(* call c left it.  Memory byte o is entry o + 1.                          *)
InitMem == [x \in 1..TotalSize |-> <<"init", x - 1, 0>>]
Havoc(c) == [x \in 1..TotalSize |-> <<"call", c, x - 1>>]
ExtBytes(v) == [k \in 1..TypeStoreSize(ExtType(v)) |-> <<"ext", v, k>>]
ReadBytes(mem, o, n) == [k \in 1..n |-> mem[o + k]]
WriteBytes(mem, o, bytes) ==
  [x \in 1..Len(mem) |->
     IF x - 1 \in o .. (o + Len(bytes) - 1) THEN bytes[x - o] ELSE mem[x]]

\* Bytes of value v, given the results lv of the loads executed so far.
ValueBytes(lv, v) == IF v < 0 THEN ExtBytes(v) ELSE lv[v]

Machine(f) ==
  [mem |-> InitMem,
   lv  |-> [i \in 1..Len(f) |-> <<>>],     \* result of load i
   obs |-> [i \in 1..Len(f) |-> <<>>]]     \* register state call i is entered with

\* Instruction i of f, with operand 0 of the stores as in operand, unless removed.
ExecInst(f, map, operand, removed, i, m) ==
  IF i \in removed THEN m
  ELSE IF f[i].kind = "call"
    THEN [m EXCEPT !.obs[i] = m.mem, !.mem = Havoc(i)]
  ELSE IF i \notin DOMAIN map THEN m
  ELSE IF f[i].kind = "load"
    THEN [m EXCEPT !.lv[i] = ReadBytes(m.mem, map[i], TypeStoreSize(f[i].ty))]
  ELSE IF f[i].kind = "store"
    THEN [m EXCEPT !.mem = WriteBytes(m.mem, map[i], ValueBytes(m.lv, operand[i]))]
  ELSE m

RECURSIVE Run(_, _, _, _, _, _)
Run(f, map, operand, removed, i, m) ==
  IF i > Len(f) THEN m
  ELSE Run(f, map, operand, removed, i + 1, ExecInst(f, map, operand, removed, i, m))

OriginalRun == Run(func, offset, InitialUse(func), {}, 1, Machine(func))
RewrittenRun == Run(func, offset, use, erased, 1, Machine(func))

\* Same final register state, same state at every call, and every user of a
\* load receives the value the load read in the original block.
SameEffects ==
  LET o == OriginalRun
      r == RewrittenRun
  IN /\ o.mem = r.mem
     /\ o.obs = r.obs
     /\ \A i \in 1..Len(func) :
          IsMappedLoad(i) => ValueBytes(r.lv, use[i]) = o.lv[i]

\* C1: running LocalOptimizeBlock and then the rewritten block gives the same
\* final register-state bytes and the same value for every (use of a) load as
\* the original block from the same initial register state.
C1_ForwardingSound == pc = "done" => SameEffects

\* Every mapped access of the block starts at the first byte of its register.
AllAtRegisterStart ==
  \A i \in 1..Len(func) :
    (IsMappedLoad(i) \/ IsMappedStore(i)) => gByteOffsetToBeginOffset(offset[i]) = offset[i]

C1_SoundAtRegisterStart == (pc = "done" /\ AllAtRegisterStart) => SameEffects

-----------------------------------------------------------------------------
(* Claims about the rewriting done by LocalOptimizeBlock.                  *)

\* C2: a mapped store is marked for removal if and only if a later full-width
\* mapped store to its register exists with no mapped load of the register and
\* no call in between; of two consecutive full-width stores to one register the
\* first is removed and the second is kept.
C2_DeadStoreExact ==
  /\ \A i \in Visited : IsMappedStore(i) => (i \in to_remove <=> KilledLater(i))
  /\ (/\ pc = "done" /\ Len(func) = 2
      /\ IsFullWidthStore(1) /\ IsFullWidthStore(2) /\ RegOf(1) = RegOf(2))
     => erased = {1}

C2_Witness ==
  /\ pc = "done"
  /\ \E i \in 1..(Len(func) - 2) :
       /\ IsMappedStore(i) /\ i \in erased
       /\ IsPartialWidthStore(i + 1) /\ RegOf(i + 1) = RegOf(i) /\ (i + 1) \in erased
       /\ IsFullWidthStore(i + 2) /\ RegOf(i + 2) = RegOf(i) /\ (i + 2) \notin erased

\* The uses of the removed load i now refer to a value from an access s of the
\* same register before i with no call between s and i: a retained load s, or
\* the operand of a store s.
ForwardedWithoutCall(i) ==
  \E s \in 1..(i - 1) :
    /\ AccessesReg(s, RegOf(i))
    /\ NoCallBetween(s, i)
    /\ \/ IsMappedLoad(s) /\ s \notin to_remove /\ use[i] = s
       \/ IsMappedStore(s) /\ use[i] = use[s]

\* C3: nothing is removed or rewritten across a call: a removed load takes its
\* value from an access with no call in between, a removed store is dead
\* because of a store with no call in between; for load R; call; load R both
\* loads are retained and the second is not forwarded to the first.
C3_CallConservatism ==
  /\ \A i \in Visited :
       /\ (IsMappedLoad(i) /\ i \in to_remove) => ForwardedWithoutCall(i)
       /\ (IsMappedStore(i) /\ i \in to_remove) =>
            \E j \in (i + 1) .. Len(func) :
              IsFullWidthStore(j) /\ RegOf(j) = RegOf(i) /\ NoCallBetween(i, j)
  /\ (/\ pc = "done" /\ Len(func) = 3
      /\ IsMappedLoad(1) /\ IsCall(2) /\ IsMappedLoad(3) /\ RegOf(1) = RegOf(3))
     => (erased = {} /\ use[3] = 3 /\ use[1] = 1)

C3_Witness ==
  /\ pc = "done" /\ Len(func) = 3
  /\ IsMappedLoad(1) /\ IsCall(2) /\ IsMappedLoad(3)
  /\ offset[1] = offset[3] /\ func[1].ty = func[3].ty
  /\ erased = {}

\* C4 as stated: a partial-width store is never put in the removal set and
\* marks its register live-on-entry when visited.
C4_PartialStoreAlwaysLive ==
  \A i \in Visited :
    IsPartialWidthStore(i) =>
      /\ i \notin to_remove
      /\ JustVisited(i) => RegOf(i) \in live_on_entry

\* C4 as amended: a partial-width store visited while its register is not in
\* local_dead marks the register live-on-entry, clears it from local_dead and
\* is not marked for removal; one visited while the register is in local_dead
\* is marked for removal and changes no liveness.  For a partial store to R
\* followed by a full store to R the partial store is removed and R is not
\* live-on-entry.
C4_PartialStoreLiveUnlessDead ==
  /\ [][(Scanning /\ IsPartialWidthStore(inst_rev)) =>
          IF RegOf(inst_rev) \in local_dead
          THEN /\ to_remove' = to_remove \cup {inst_rev}
               /\ live_on_entry' = live_on_entry
               /\ local_dead' = local_dead
          ELSE /\ to_remove' = to_remove
               /\ RegOf(inst_rev) \in live_on_entry'
               /\ RegOf(inst_rev) \notin local_dead']_vars
  /\ []((/\ pc = "done" /\ Len(func) = 2
         /\ IsPartialWidthStore(1) /\ IsFullWidthStore(2) /\ RegOf(1) = RegOf(2))
        => (erased = {1} /\ RegOf(1) \notin gBlockState[1].live_on_entry))

C4_Witness ==
  /\ pc = "done" /\ Len(func) = 2
  /\ IsPartialWidthStore(1) /\ IsFullWidthStore(2) /\ RegOf(1) = RegOf(2)
  /\ erased = {1}

SameTypeLoads(i, j) ==
  /\ IsMappedLoad(i) /\ IsMappedLoad(j)
  /\ RegOf(i) = RegOf(j) /\ func[i].ty = func[j].ty

\* The later load j is removed and its uses refer to what the uses of the
\* earlier load i refer to: i itself, or the value i was forwarded from.
ForwardedTo(j, i) ==
  /\ j \in to_remove
  /\ use[j] = use[i]
  /\ i \in to_remove => use[i] # i

\* C6 as stated: of two mapped loads of one register with identical type, with
\* no mapped store to the register and no call between them, the later one is
\* replaced by the earlier one and removed.
C6_LaterLoadForwarded ==
  \A i, j \in Visited :
    (/\ i < j /\ SameTypeLoads(i, j)
     /\ NoStoreBetween(i, j, RegOf(i)) /\ NoCallBetween(i, j))
    => ForwardedTo(j, i)

NoOtherTypeLoadBetween(i, j) ==
  \A k \in Between(i, j) :
    (IsMappedLoad(k) /\ RegOf(k) = RegOf(i)) => func[k].ty = func[i].ty

\* C6 as amended: ... and no mapped load of the register with another result
\* type between them.
C6_LaterLoadForwardedSameTypeRun ==
  \A i, j \in Visited :
    (/\ i < j /\ SameTypeLoads(i, j)
     /\ NoStoreBetween(i, j, RegOf(i)) /\ NoCallBetween(i, j)
     /\ NoOtherTypeLoadBetween(i, j))
    => ForwardedTo(j, i)

C6_Witness ==
  /\ pc = "done" /\ Len(func) = 3
  /\ SameTypeLoads(1, 2) /\ SameTypeLoads(2, 3)
  /\ erased = {2, 3}
  /\ use = <<1, 1, 1>>

\* C7 as stated: of two sequential loads of R with identical type the earlier
\* one is rewritten to reuse the later one's result and removed.
C7_EarlierLoadRemoved ==
  (pc = "done" /\ Len(func) = 2 /\ SameTypeLoads(1, 2))
  => (1 \in erased /\ use[1] = 2)

\* C7 as amended: the later load is rewritten to reuse the earlier one's result
\* and the later load is removed; the earlier one stays.
C7_LaterLoadRemoved ==
  /\ (pc = "done" /\ Len(func) = 2 /\ SameTypeLoads(1, 2))
     => (erased = {2} /\ use = <<1, 1>>)
  /\ \A i \in Visited :
       ((i + 1) \in Visited /\ SameTypeLoads(i, i + 1))
       => ((i + 1) \in to_remove /\ use[i + 1] = use[i] /\ use[i + 1] # i + 1)

C7_Witness ==
  /\ pc = "done" /\ Len(func) = 2 /\ SameTypeLoads(1, 2)
  /\ erased = {2} /\ use[2] = 1

\* A mapped load at i directly followed by a full-width store of the load's
\* type to the same register.
LoadThenStore(i) ==
  /\ i + 1 <= Len(func)
  /\ IsMappedLoad(i) /\ IsFullWidthStore(i + 1)
  /\ RegOf(i) = RegOf(i + 1) /\ StoredType(i + 1) = func[i].ty

\* C8 as stated: for a load of R followed by a full-width store to R of the
\* load's type the store is put in the removal set.
C8_StoreAfterLoadEliminated ==
  \A i \in Visited : LoadThenStore(i) => (i + 1) \in to_remove

\* C8 as amended: the store is removed only if a later full-width store makes
\* it dead, never on account of the load; the load is retained, not rewritten,
\* pending and marks R live-on-entry; in the two-instruction block both stay.
C8_StoreAfterLoadKept ==
  /\ \A i \in 1..Len(func) :
       (JustVisited(i) /\ LoadThenStore(i)) =>
         /\ i \notin to_remove /\ use[i] = i
         /\ RegOf(i) \in DOMAIN load_forwarding /\ load_forwarding[RegOf(i)] = i
         /\ RegOf(i) \in live_on_entry /\ RegOf(i) \notin local_dead
         /\ (i + 1) \in to_remove <=> KilledLater(i + 1)
  /\ (pc = "done" /\ Len(func) = 2 /\ LoadThenStore(1))
     => (erased = {} /\ use[1] = 1)

C8_Witness ==
  pc = "done" /\ Len(func) = 2 /\ LoadThenStore(1) /\ erased = {}

\* C9: a full-width store followed by a load of the same register, with no
\* other access to it and no call between: the load is replaced by the stored
\* value and removed exactly if its type is the stored value's type; a partial
\* store forwards nothing; a full store of another type still kills the
\* register; every store clears the pending load of its register.
C9_StoreToLoadForwarding ==
  /\ \A s, l \in Visited :
       (/\ s < l /\ IsMappedStore(s) /\ IsMappedLoad(l) /\ RegOf(s) = RegOf(l)
        /\ NoAccessBetween(s, l, RegOf(s)) /\ NoCallBetween(s, l))
       => /\ s \notin to_remove
          /\ IF IsFullWidthStore(s) /\ StoredType(s) = func[l].ty
             THEN l \in to_remove /\ use[l] = use[s]
             ELSE l \notin to_remove /\ use[l] = l
  /\ \A s \in 1..Len(func) :
       (JustVisited(s) /\ IsMappedStore(s)) =>
         /\ RegOf(s) \notin DOMAIN load_forwarding
         /\ (IsFullWidthStore(s) /\ s \notin to_remove) =>
              /\ RegOf(s) \notin live_on_entry
              /\ RegOf(s) \in killed_in_block
              /\ RegOf(s) \in local_dead

C9_Witness ==
  /\ pc = "done"
  /\ \E s \in 1..(Len(func) - 1) :
       /\ IsFullWidthStore(s) /\ IsMappedLoad(s + 1) /\ RegOf(s) = RegOf(s + 1)
       /\ StoredType(s) # func[s + 1].ty
       /\ TypeStoreSize(StoredType(s)) = TypeStoreSize(func[s + 1].ty)
       /\ erased = {}
       /\ RegOf(s) \in gBlockState[1].killed_in_block

-----------------------------------------------------------------------------
(* GetOffsets.                                                             *)

\* Lines 62-70: failed, and the displacement when it is constant.
\* Variant: accumulateConstantOffset never fails (line 65 left out).
GetOffsetFromBasePtrNeverFails(gep_inst) ==
  [failed |-> FALSE,
   offset |-> IF gep_inst.disp = <<>> THEN 0 ELSE gep_inst.disp[1]]

GetOffsetFromBasePtr(gep_inst) ==
  [failed |-> gep_inst.disp = <<>>,
   offset |-> IF gep_inst.disp = <<>> THEN 0 ELSE gep_inst.disp[1]]

\* Variant: the test of line 83 left out.
AlreadyMappedNever(off, inst) == FALSE

\* Lines 83-85.
AlreadyMapped(off, inst) == inst \in DOMAIN off

\* Lines 125-132: the first incoming value that has an offset, as a set.
FirstMappedOperand(off, ops) ==
  {ops[k] : k \in {k \in 1..Len(ops) :
                     /\ ops[k] \in DOMAIN off
                     /\ \A j \in 1..(k - 1) : ops[j] \notin DOMAIN off}}

OffsetState(off, progress) == [offset |-> off, made_progress |-> progress]

Assign(st, inst, o) == OffsetState(SetEntry(st.offset, inst, o), TRUE)

\* Lines 83-133: the body of the inner loop for instruction inst of f.  The
\* sum of line 96 is unsigned; the displacements of the model are small and
\* not negative, so that it never wraps.
OffsetStep(f, st, inst) ==
  LET off == st.offset
      i == f[inst]
  IN IF AlreadyMapped(off, inst) THEN st
     ELSE IF i.kind = "gep" THEN
       IF i.ptr \notin DOMAIN off THEN st
       ELSE LET r == GetOffsetFromBasePtr(i)
            IN IF ~r.failed
               THEN Assign(st, inst, r.offset + off[i.ptr])
               ELSE st
     ELSE IF i.kind \in {"cast", "load", "store"} THEN
       IF i.ptr \in DOMAIN off THEN Assign(st, inst, off[i.ptr]) ELSE st
     ELSE IF i.kind = "phi" THEN
       IF i.ty # "ptr" THEN st
       ELSE IF FirstMappedOperand(off, i.ops) = {} THEN st
       ELSE Assign(st, inst, off[CHOOSE v \in FirstMappedOperand(off, i.ops) : TRUE])
     ELSE st

\* Lines 81-135: one full pass, from instruction inst on.
RECURSIVE OffsetPass(_, _, _)
OffsetPass(f, st, inst) ==
  IF inst > Len(f) THEN st
  ELSE OffsetPass(f, OffsetStep(f, st, inst), inst + 1)

\* Lines 79-136: passes until one makes no progress.
RECURSIVE OffsetLoop(_, _)
OffsetLoop(f, off) ==
  LET st == OffsetPass(f, OffsetState(off, FALSE), 1)
  IN IF st.made_progress THEN OffsetLoop(f, st.offset) ELSE st.offset

\* Lines 72-139.
GetOffsets(f) == OffsetLoop(f, SetEntry(EmptyMap, state_ptr, 0))

-----------------------------------------------------------------------------
(* The functions handed to GetOffsets: n instructions; the operands of     *)
(* instruction i are the state pointer, the instruction before it or the   *)
(* instruction after it (a value of another block, or of a loop).          *)
Operands(i, n) == {state_ptr} \cup ({i - 1, i + 1} \cap (1..n))

FuncItems(i, n) ==
  {GEPConst(b, 1) : b \in Operands(i, n)}
  \cup {GEPNonConst(b) : b \in Operands(i, n)}
  \cup {BitCastInst(b) : b \in Operands(i, n)}
  \cup {LoadInst(b, "i8") : b \in Operands(i, n)}
  \cup {StoreInst(b, ExtD) : b \in Operands(i, n) \ {i + 1}}
  \cup {PHINode("ptr", ops) : ops \in
          {x \in Operands(i, n) \X Operands(i, n) : x[1] # x[2]}}
  \cup {PHINode("int", <<>>), CallInst}

\* A load whose result is itself a pointer (the register holds an address).
PointerLoadItems(i, n) == {LoadInst(b, "ptr") : b \in Operands(i, n)}

OffsetItems(i, n) == FuncItems(i, n) \cup PointerLoadItems(i, n)

Entering == <<made_progress, cursor, passes, inst_rev, live_on_entry, killed_in_block,
              local_dead, load_forwarding, to_remove, erased, gBlockState,
              cur_block, events>>

\* Lines 72-80: GetOffsets is entered with function f; the first pass starts.
EnterFunc(f) ==
  /\ func' = f
  /\ offset' = SetEntry(EmptyMap, state_ptr, 0)
  /\ made_progress' = FALSE
  /\ cursor' = 1
  /\ use' = InitialUse(f)
  /\ pc' = "pass"
  /\ UNCHANGED <<passes, inst_rev, live_on_entry, killed_in_block, local_dead,
                 load_forwarding, to_remove, erased, gBlockState, cur_block, events, layout>>

\* Every function of n instructions that extends f.
RECURSIVE EnterFuncFrom(_, _)
EnterFuncFrom(f, n) ==
  IF Len(f) = n THEN EnterFunc(f)
  ELSE \E i \in OffsetItems(Len(f) + 1, n) : EnterFuncFrom(Append(f, i), n)

EnterGetOffsets == pc = "idle" /\ \E n \in 1..MaxInsts : EnterFuncFrom(<<>>, n)

InPass == pc = "pass" /\ cursor <= Len(func)

\* The inner loop's body on the instruction under cursor.
VisitInst ==
  LET st == OffsetStep(func, OffsetState(offset, made_progress), cursor)
  IN /\ offset' = st.offset
     /\ made_progress' = st.made_progress
     /\ cursor' = cursor + 1
     /\ UNCHANGED <<func, passes, inst_rev, live_on_entry, killed_in_block,
                    local_dead, load_forwarding, to_remove, use, erased,
                    gBlockState, cur_block, events, pc, layout>>

SkipMapped == InPass /\ AlreadyMapped(offset, cursor) /\ VisitInst
VisitGEP ==
  InPass /\ ~AlreadyMapped(offset, cursor) /\ func[cursor].kind = "gep" /\ VisitInst
VisitCast ==
  InPass /\ ~AlreadyMapped(offset, cursor) /\ func[cursor].kind = "cast" /\ VisitInst
VisitLoadPtr ==
  InPass /\ ~AlreadyMapped(offset, cursor) /\ func[cursor].kind = "load" /\ VisitInst
VisitStorePtr ==
  InPass /\ ~AlreadyMapped(offset, cursor) /\ func[cursor].kind = "store" /\ VisitInst
VisitPHI ==
  InPass /\ ~AlreadyMapped(offset, cursor) /\ func[cursor].kind = "phi" /\ VisitInst
VisitIgnored ==
  /\ InPass /\ ~AlreadyMapped(offset, cursor)
  /\ func[cursor].kind \notin {"gep", "cast", "load", "store", "phi"}
  /\ VisitInst

\* Line 79: the pass is over and made progress; the next one starts.
NextPass ==
  /\ pc = "pass" /\ cursor > Len(func) /\ made_progress
  /\ made_progress' = FALSE
  /\ cursor' = 1
  /\ passes' = passes + 1
  /\ UNCHANGED <<func, offset, inst_rev, live_on_entry, killed_in_block,
                 local_dead, load_forwarding, to_remove, use, erased,
                 gBlockState, cur_block, events, pc, layout>>

\* Lines 79, 138: the pass is over and made no progress; the map is returned.
ReturnOffsets ==
  /\ pc = "pass" /\ cursor > Len(func) /\ ~made_progress
  /\ passes' = passes + 1
  /\ pc' = "returned"
  /\ UNCHANGED <<func, offset, made_progress, cursor, inst_rev, live_on_entry,
                 killed_in_block, local_dead, load_forwarding, to_remove, use,
                 erased, gBlockState, cur_block, events, layout>>

NextOffsets ==
  \/ EnterGetOffsets
  \/ SkipMapped
  \/ VisitGEP
  \/ VisitCast
  \/ VisitLoadPtr
  \/ VisitStorePtr
  \/ VisitPHI
  \/ VisitIgnored
  \/ NextPass
  \/ ReturnOffsets

SpecOffsets == Init /\ [][NextOffsets]_vars

\* C10: during GetOffsets a value that has an entry in the Offset Map keeps
\* exactly that offset in every later state, and the state pointer is mapped
\* to offset 0 from the start to the end.
C10_OffsetMonotonic ==
  /\ [][\A v \in DOMAIN offset : v \in DOMAIN offset' /\ offset'[v] = offset[v]]_vars
  /\ [](pc \in {"pass", "returned"} =>
          (state_ptr \in DOMAIN offset /\ offset[state_ptr] = 0))

\* A merge instruction that got its offset from one operand while its other
\* operand was mapped later to another offset.
C10_Witness ==
  /\ pc = "returned"
  /\ passes >= 2
  /\ \E p \in 1..Len(func) :
       /\ func[p].kind = "phi" /\ p \in DOMAIN offset
       /\ \E k \in 1..Len(func[p].ops) :
            /\ func[p].ops[k] \in DOMAIN offset
            /\ offset[func[p].ops[k]] # offset[p]

-----------------------------------------------------------------------------
(* OptimizeFunction.  The generic pipeline is a black box: the model       *)
(* records when it runs, not what it does to the function.                 *)

\* Every mapped instruction has an offset inside the register state.
InRange(f) ==
  LET off == GetOffsets(f)
  IN \A v \in DOMAIN off : off[v] \in Offsets

\* Lines 256-263: OptimizeFunction is entered with f; the passes are added to
\* the pass manager, nothing has run yet.
EnterOptimize(f) ==
  /\ InRange(f)
  /\ func' = f
  /\ use' = InitialUse(f)
  /\ pc' = "GetOffsets"
  /\ UNCHANGED <<offset, made_progress, cursor, passes, inst_rev, live_on_entry,
                 killed_in_block, local_dead, load_forwarding, to_remove, erased,
                 gBlockState, cur_block, events, layout>>

RECURSIVE EnterOptimizeFrom(_, _)
EnterOptimizeFrom(f, n) ==
  IF Len(f) = n THEN EnterOptimize(f)
  ELSE \E i \in FuncItems(Len(f) + 1, n) \cup {BranchInst} :
         EnterOptimizeFrom(Append(f, i), n)

EnterOptimizeFunction == pc = "idle" /\ \E n \in 1..MaxInsts : EnterOptimizeFrom(<<>>, n)

\* Line 265.
CallGetOffsets ==
  /\ pc = "GetOffsets"
  /\ offset' = GetOffsets(func)
  /\ events' = Append(events, "GetOffsets")
  /\ cur_block' = 1
  /\ pc' = "blocks"
  /\ UNCHANGED <<func, made_progress, cursor, passes, inst_rev, live_on_entry,
                 killed_in_block, local_dead, load_forwarding, to_remove, use,
                 erased, gBlockState, layout>>

\* Lines 266-268: LocalOptimizeBlock on the next block, to its return.
CallLocalOptimizeBlock ==
  /\ pc = "blocks" /\ cur_block <= Len(BlockRanges(func))
  /\ LET st == LocalOptimizeBlock(func, offset, use, BlockFirst, BlockLast)
     IN /\ live_on_entry' = st.live_on_entry
        /\ killed_in_block' = st.killed_in_block
        /\ local_dead' = st.local_dead
        /\ load_forwarding' = st.load_forwarding
        /\ to_remove' = st.to_remove
        /\ use' = st.use
        /\ erased' = erased \cup st.to_remove
        /\ gBlockState' = SetEntry(gBlockState, cur_block, BlockState(st))
  /\ inst_rev' = BlockFirst - 1
  /\ events' = Append(events, "LocalOptimizeBlock")
  /\ cur_block' = cur_block + 1
  /\ UNCHANGED <<func, offset, made_progress, cursor, passes, pc, layout>>

\* Lines 270-272: the pass manager runs the pipeline on the function.
RunPassManager ==
  /\ pc = "blocks" /\ cur_block > Len(BlockRanges(func))
  /\ events' = Append(events, "FunctionPassManager::run")
  /\ pc' = "done"
  /\ UNCHANGED <<func, offset, made_progress, cursor, passes, inst_rev,
                 live_on_entry, killed_in_block, local_dead, load_forwarding,
                 to_remove, use, erased, gBlockState, cur_block, layout>>

NextDriver ==
  \/ EnterOptimizeFunction
  \/ CallGetOffsets
  \/ CallLocalOptimizeBlock
  \/ RunPassManager

SpecDriver == Init /\ [][NextDriver]_vars

\* C5: in every execution of OptimizeFunction the generic pipeline has run
\* before the Offset Map is computed and before any block is processed, and
\* the eliminator then processes every block.
C5_PipelineFirst ==
  /\ \A k \in 1..Len(events) :
       events[k] \in {"GetOffsets", "LocalOptimizeBlock"} =>
         \E j \in 1..(k - 1) : events[j] = "FunctionPassManager::run"
  /\ pc = "done" => DOMAIN gBlockState = 1..Len(BlockRanges(func))

-----------------------------------------------------------------------------
(* Termination of GetOffsets.  The code is single-threaded and runs to     *)
(* completion: a step that can be taken is taken.                          *)
SpecOffsetsFair == Init /\ [][NextOffsets]_vars /\ WF_vars(NextOffsets)

\* What is left of the loop: passes that may still come, then instructions
\* left in the current pass.
LoopMeasure == (Len(func) + 1 - passes) * (Len(func) + 2) + (Len(func) + 1 - cursor)

\* C11: the repeat-until-no-progress loop of GetOffsets terminates, and it
\* makes at most (number of instructions + 1) full passes: inside the loop a
\* step is always possible, every step returns or lowers LoopMeasure, which
\* never goes below 0.
C11_Terminates ==
  /\ [](pc = "pass" =>
          /\ passes <= Len(func) /\ cursor <= Len(func) + 1
          /\ LoopMeasure >= 0
          /\ ENABLED NextOffsets)
  /\ [](pc = "returned" => passes <= Len(func) + 1)
  /\ [][pc = "pass" =>
          (pc' = "returned" \/ (pc' = "pass" /\ LoopMeasure' < LoopMeasure))]_vars

\* C11, as a property of the behaviours under fairness: GetOffsets returns.
C11_EventuallyReturns == <>(pc = "returned")

\* A merge whose operand is defined later, a struct-indexing with a
\* displacement that is not constant, and the most passes a function of three
\* instructions can need.
C11_Witness ==
  /\ pc = "returned"
  /\ Len(func) >= 3
  /\ passes = Len(func) + 1
  /\ \E p \in 1..Len(func) : func[p].kind = "phi" /\ p \in DOMAIN offset

-----------------------------------------------------------------------------
(* What the instructions of func compute, to judge the entries of the      *)
(* Offset Map: a value is a pointer to state + o when it is the state      *)
(* pointer (o = 0), a struct-indexing or cast of such a pointer, or a      *)
(* merge of such pointers only.  The result of a load is what the memory   *)
(* holds, not the address that was read.                                   *)

PointerOperands(i) ==
  IF i.kind \in {"gep", "cast", "load", "store"} THEN {i.ptr}
  ELSE IF i.kind = "phi" /\ i.ty = "ptr" THEN {i.ops[k] : k \in 1..Len(i.ops)}
  ELSE {}

\* Every pointer operand is the state pointer or has pointer type.
WellTyped(f) ==
  \A p \in 1..Len(f) : \A v \in PointerOperands(f[p]) :
    v = state_ptr \/ (v \in 1..Len(f) /\ f[v].ty = "ptr")

\* Spec section 6: the mapped incoming operands of a pointer merge agree.
MergeOperandInvariant(f, off) ==
  \A p \in 1..Len(f) :
    (f[p].kind = "phi" /\ f[p].ty = "ptr") =>
      \A v, w \in PointerOperands(f[p]) \cap DOMAIN off : off[v] = off[w]

\* v is computed from the state pointer alone, and the map gives it offset o.
PointsToState(f, off, v, o) ==
  /\ v \in DOMAIN off /\ off[v] = o
  /\ v = state_ptr \/ f[v].kind \in {"gep", "cast", "phi"}

\* The entry of instruction p is a true constant offset, given that the
\* entries of its operands are.
TrueEntry(f, off, p) ==
  LET i == f[p]
  IN IF i.kind = "gep"
     THEN i.disp # <<>> /\ PointsToState(f, off, i.ptr, off[p] - i.disp[1])
     ELSE IF i.kind \in {"cast", "load", "store"}
     THEN PointsToState(f, off, i.ptr, off[p])
     ELSE /\ i.kind = "phi" /\ i.ty = "ptr"
          /\ \A v \in PointerOperands(i) : PointsToState(f, off, v, off[p])

Returned == pc = "returned"

\* C12: when GetOffsets returns for a well-typed function that satisfies the
\* merge-operand invariant, every entry of the map is a true constant offset
\* from the state pointer, whatever the pointer operands are.
C12_EntriesAreTrueOffsets ==
  (Returned /\ WellTyped(func) /\ MergeOperandInvariant(func, offset)) =>
    \A p \in DOMAIN offset \ {state_ptr} : TrueEntry(func, offset, p)

\* No pointer operand is the result of a load, and no merge has an operand
\* that is left out of the map.
NoLoadedPointers(f, off) ==
  \A p \in 1..Len(f) : \A v \in PointerOperands(f[p]) :
    /\ v = state_ptr \/ f[v].kind # "load"
    /\ (f[p].kind = "phi" /\ p \in DOMAIN off) => v \in DOMAIN off

\* C12, for functions whose pointers are never loaded and whose mapped merges
\* have mapped operands only.
C12_TrueOffsetsWithoutLoadedPointers ==
  (Returned /\ WellTyped(func) /\ MergeOperandInvariant(func, offset)
     /\ NoLoadedPointers(func, offset)) =>
    \A p \in DOMAIN offset \ {state_ptr} : TrueEntry(func, offset, p)

-----------------------------------------------------------------------------
(* InitDeadRegisterEliminator, step by step, on a register-state structure *)
(* whose fields are drawn from FieldTypes.                                 *)

\* [0 x i8] is a field without bytes.
FieldTypes == Types \cup {"[0 x i8]"}

FieldStoreSize(ty) == IF ty = "[0 x i8]" THEN 0 ELSE TypeStoreSize(ty)

Others == <<func, offset, made_progress, cursor, passes, inst_rev, live_on_entry,
            killed_in_block, local_dead, load_forwarding, to_remove, use,
            erased, gBlockState, cur_block, events>>

\* Lines 234-243: the function is entered for the structure state_type.
EnterInit(state_type) ==
  /\ pc = "idle"
  /\ layout' = [layout EXCEPT !.state_type = state_type, !.field = 1, !.i = 0,
                              !.reg_offset = 0, !.total_size = 0]
  /\ pc' = "init"
  /\ UNCHANGED Others

RECURSIVE EnterInitFrom(_, _)
EnterInitFrom(state_type, n) ==
  IF Len(state_type) = n THEN EnterInit(state_type)
  ELSE \E ty \in FieldTypes : EnterInitFrom(Append(state_type, ty), n)

EnterInitDeadRegisterEliminator == \E n \in 0..MaxFields : EnterInitFrom(<<>>, n)

InField == pc = "init" /\ layout.field <= Len(layout.state_type)

store_size == FieldStoreSize(layout.state_type[layout.field])

\* Lines 251-252, without the addition to total_size.
NextFieldKeepsTotal ==
  /\ InField /\ layout.i >= store_size
  /\ layout' = [layout EXCEPT !.reg_offset = @ + 1,
                              !.field = @ + 1, !.i = 0]
  /\ UNCHANGED <<Others, pc>>

\* Lines 246-250: one iteration of the inner loop.
PushBack ==
  /\ InField /\ layout.i < store_size
  /\ layout' = [layout EXCEPT !.reg = Append(@, layout.reg_offset),
                              !.size = Append(@, store_size),
                              !.begin = Append(@, layout.total_size),
                              !.i = @ + 1]
  /\ UNCHANGED <<Others, pc>>

\* Lines 251-252 and the step of the outer loop.
NextField ==
  /\ InField /\ layout.i >= store_size
  /\ layout' = [layout EXCEPT !.total_size = @ + store_size,
                              !.reg_offset = @ + 1,
                              !.field = @ + 1, !.i = 0]
  /\ UNCHANGED <<Others, pc>>

\* Line 254.
ReturnInit ==
  /\ pc = "init" /\ layout.field > Len(layout.state_type)
  /\ pc' = "initialized"
  /\ UNCHANGED <<Others, layout>>

NextInit ==
  \/ EnterInitDeadRegisterEliminator
  \/ PushBack
  \/ NextField
  \/ ReturnInit

SpecInit == Init /\ [][NextInit]_vars

\* s0 + ... + s(k-1) for the first k fields of state_type.
RECURSIVE SizeOfFields(_, _)
SizeOfFields(state_type, k) ==
  IF k = 0 THEN 0
  ELSE SizeOfFields(state_type, k - 1) + FieldStoreSize(state_type[k])

Initialized == pc = "initialized"

\* C13: after InitDeadRegisterEliminator has run once, the three tables have
\* totalSize entries each, and every byte offset o inside field i has
\* regOf[o] = i, sizeOf[o] = si, startOf[o] = s0+...+s(i-1) and
\* startOf[o] <= o < startOf[o] + sizeOf[o].
C13_LayoutTables ==
  Initialized =>
    LET st == layout.state_type
        totalSize == SizeOfFields(st, Len(st))
    IN /\ Len(layout.reg) = totalSize
       /\ Len(layout.size) = totalSize
       /\ Len(layout.begin) = totalSize
       /\ \A o \in 0..(totalSize - 1) : \A k \in 1..Len(st) :
            (SizeOfFields(st, k - 1) <= o /\ o < SizeOfFields(st, k)) =>
              /\ layout.reg[o + 1] = k - 1
              /\ layout.size[o + 1] = FieldStoreSize(st[k])
              /\ layout.begin[o + 1] = SizeOfFields(st, k - 1)
              /\ layout.begin[o + 1] <= o
              /\ o < layout.begin[o + 1] + layout.size[o + 1]
       /\ \A o \in 0..(totalSize - 1) : \E k \in 1..Len(st) :
            SizeOfFields(st, k - 1) <= o /\ o < SizeOfFields(st, k)

\* Three fields of sizes 2, 0 and 1: the last register starts at byte 2.
C13_Witness ==
  /\ Initialized
  /\ Len(layout.state_type) = 3
  /\ FieldStoreSize(layout.state_type[1]) = 2
  /\ FieldStoreSize(layout.state_type[2]) = 0
  /\ Len(layout.reg) = 3 /\ layout.reg[3] = 2 /\ layout.begin[3] = 2

\* The tables the other specifications read are the ones this run leaves for
\* the structure StateFields.
TablesAsBuilt ==
  (Initialized /\ [k \in 1..Len(layout.state_type) |->
                     FieldStoreSize(layout.state_type[k])] = StateFields) =>
    Tables = [reg |-> layout.reg, size |-> layout.size, begin |-> layout.begin]

-----------------------------------------------------------------------------
(* The BlockState that LocalOptimizeBlock leaves in gBlockState.           *)

Done == pc = "done"
Stored == gBlockState[cur_block]
CallFree == \A i \in 1..Len(func) : ~IsCall(i)

NoFullStoreBefore(i, r) ==
  \A j \in 1..(i - 1) : ~(IsFullWidthStore(j) /\ RegOf(j) = r)

\* C14: for a block without calls, r is in the stored live_on_entry exactly
\* when the block has a mapped load of r, or a partial-width mapped store to
\* r, that no full-width mapped store to r precedes.
C14_LiveOnEntry ==
  (Done /\ CallFree) =>
    \A r \in Regs :
      r \in Stored.live_on_entry <=>
        \E i \in 1..Len(func) :
          /\ IsMappedLoad(i) \/ IsPartialWidthStore(i)
          /\ RegOf(i) = r
          /\ NoFullStoreBefore(i, r)

\* C14, with the partial-width stores that count: those the scan did not
\* classify dead (no later full-width store to r without a load of r between).
C14_LiveOnEntryUnlessDead ==
  (Done /\ CallFree) =>
    \A r \in Regs :
      r \in Stored.live_on_entry <=>
        \E i \in 1..Len(func) :
          /\ IsMappedLoad(i) \/ (IsPartialWidthStore(i) /\ ~KilledLater(i))
          /\ RegOf(i) = r
          /\ NoFullStoreBefore(i, r)

\* A partial-width store that a full-width store to the same register
\* follows is erased and leaves the register out of live_on_entry; the load
\* of another register puts that one in.
C14_Witness ==
  /\ Done /\ CallFree /\ Len(func) = 3
  /\ IsPartialWidthStore(1) /\ IsFullWidthStore(2) /\ RegOf(2) = RegOf(1)
  /\ IsMappedLoad(3) /\ RegOf(3) # RegOf(1)
  /\ 1 \in erased
  /\ Stored.live_on_entry = {RegOf(3)}

\* C15: for every block, r is in the stored killed_in_block exactly when the
\* block has a mapped full-width store to r.
C15_KilledInBlock ==
  Done =>
    \A r \in Regs :
      r \in Stored.killed_in_block <=>
        \E i \in 1..Len(func) : IsFullWidthStore(i) /\ RegOf(i) = r

NoCallBefore(i) == \A j \in 1..(i - 1) : ~IsCall(j)

\* C15, with the full-width stores that count: those before the first call.
C15_KilledBeforeFirstCall ==
  Done =>
    \A r \in Regs :
      r \in Stored.killed_in_block <=>
        \E i \in 1..Len(func) :
          IsFullWidthStore(i) /\ RegOf(i) = r /\ NoCallBefore(i)

\* Full-width stores to two registers with a call between them: only the
\* register stored before the call is killed.
C15_Witness ==
  /\ Done /\ Len(func) = 3
  /\ IsFullWidthStore(1) /\ IsCall(2) /\ IsFullWidthStore(3)
  /\ RegOf(3) # RegOf(1)
  /\ Stored.killed_in_block = {RegOf(1)}

-----------------------------------------------------------------------------
(* The least set of values closed under the propagation rules.             *)

\* Instruction p is mapped by one of the rules from the values in S.
Derivable(f, S, p) ==
  LET i == f[p]
  IN \/ i.kind = "gep" /\ i.disp # <<>> /\ i.ptr \in S
     \/ i.kind \in {"cast", "load", "store"} /\ i.ptr \in S
     \/ i.kind = "phi" /\ i.ty = "ptr" /\ \E k \in 1..Len(i.ops) : i.ops[k] \in S

RECURSIVE Closure(_, _)
Closure(f, S) ==
  LET T == S \cup {p \in 1..Len(f) : Derivable(f, S, p)}
  IN IF T = S THEN S ELSE Closure(f, T)

LeastClosed(f) == Closure(f, {state_ptr})

-----------------------------------------------------------------------------
(* What the scan may touch.                                                *)

\* Load x was pending for its register and this step redirects its users.
ForwardedNow(x) ==
  /\ IsMappedLoad(x)
  /\ RegOf(x) \in DOMAIN load_forwarding /\ load_forwarding[RegOf(x)] = x
  /\ use[x] = x /\ use'[x] # x

\* Store x is the instruction of this step and its register is locally dead.
ClassifiedDeadNow(x) ==
  /\ IsMappedStore(x) /\ x = inst_rev /\ Scanning
  /\ IsDeadStore(Cur, RegOf(x))

\* C17: LocalOptimizeBlock marks for removal only mapped loads it forwards and
\* mapped stores it classifies dead, and erases exactly the marked
\* instructions; the block's instructions keep their order; visiting an
\* instruction that is neither a call nor in the Offset Map changes none of
\* live_on_entry, killed_in_block, local_dead, load_forwarding, to_remove.
C17_Frame ==
  /\ [][\A x \in to_remove' \ to_remove : ForwardedNow(x) \/ ClassifiedDeadNow(x)]_vars
  /\ [][pc = "scan" => (func' = func /\ erased' \ erased \subseteq to_remove)]_vars
  /\ [](InScan => to_remove \subseteq
                    {x \in Visited : IsMappedLoad(x) \/ IsMappedStore(x)})
  /\ [][(Scanning /\ ~IsCall(inst_rev) /\ ~Mapped(inst_rev)) =>
          UNCHANGED <<live_on_entry, killed_in_block, local_dead,
                      load_forwarding, to_remove>>]_vars

\* A load, an instruction that is not in the map, and a second load of the
\* same register: only the second load is erased, its users read the first.
C17_Witness ==
  /\ Done /\ Len(func) = 3
  /\ IsMappedLoad(1) /\ func[2].kind = "other" /\ ~Mapped(2) /\ IsMappedLoad(3)
  /\ erased = {3} /\ use[3] = 1

\* C18: after every step of the backward scan, a register in local_dead is in
\* killed_in_block, is not in live_on_entry and has no pending load in
\* load_forwarding.
C18_ScanStateInvariant ==
  InScan =>
    \A r \in local_dead :
      /\ r \in killed_in_block
      /\ r \notin live_on_entry
      /\ r \notin DOMAIN load_forwarding

\* The scan has passed a full-width store to one register and then a load of
\* another: the first is dead, the second is live with a pending load.
C18_Witness ==
  /\ pc = "scan" /\ Len(func) = 3 /\ inst_rev = 1
  /\ IsFullWidthStore(3) /\ IsMappedLoad(2) /\ RegOf(2) # RegOf(3)
  /\ local_dead = {RegOf(3)}
  /\ live_on_entry = {RegOf(2)}
  /\ DOMAIN load_forwarding = {RegOf(2)}

-----------------------------------------------------------------------------
(* Uses after removal.                                                     *)

PendingLoads == {load_forwarding[r] : r \in DOMAIN load_forwarding}

Loads == {k \in 1..Len(func) : func[k].kind = "load"}
Stores == {k \in 1..Len(func) : func[k].kind = "store"}

\* The users of the removed load x now read a retained load before x, or the
\* value an earlier store of the block stores.
Rewritten(x) ==
  LET v == use[x]
  IN /\ v # x /\ v \notin erased
     /\ \/ v \in Loads /\ v < x
        \/ \E s \in Stores : s < x /\ use[s] = v /\ (v < 0 \/ v < s)

\* C19: during the scan no pending load is marked for removal and no marked
\* instruction is marked again; after the erase the users of every removed
\* load read a retained load or a stored value that is defined before the
\* removed load, and no retained instruction refers to an erased one.
C19_NoDanglingUses ==
  /\ [](InScan => PendingLoads \cap to_remove = {})
  /\ [][\A x \in to_remove :
          x \in to_remove' /\ ~ForwardedNow(x) /\ ~ClassifiedDeadNow(x)]_vars
  /\ [](Done => /\ \A x \in erased \cap Loads : Rewritten(x)
                /\ \A k \in (Loads \cup Stores) \ erased : use[k] \notin erased
                /\ \A k \in Loads \ erased : use[k] = k)

\* Three loads of one register: the two later ones are erased and the users
\* of both read the first.
C19_Witness ==
  /\ Done /\ Len(func) = 3
  /\ \A k \in 1..3 : IsMappedLoad(k)
  /\ erased = {2, 3}
  /\ use = <<1, 1, 1>>

-----------------------------------------------------------------------------
(* Blocks with calls.                                                      *)

HasCall == \E i \in 1..Len(func) : IsCall(i)
FirstCall == CHOOSE c \in 1..Len(func) : IsCall(c) /\ NoCallBefore(c)

\* The block cut before its first call, with its entries of the Offset Map.
Prefix == SubSeq(func, 1, FirstCall - 1)
PrefixMap == [v \in {w \in DOMAIN offset : w < FirstCall} |-> offset[v]]

\* C20: the BlockState stored for a block with calls is the one
\* LocalOptimizeBlock gives to the block's prefix before the first call,
\* whatever follows the call (so two blocks with the same prefix get the same
\* state); a block that starts with a call gets both sets empty.
C20_PrefixBeforeFirstCall ==
  (Done /\ HasCall) =>
    /\ Stored = BlockState(LocalOptimizeBlock(Prefix, PrefixMap, InitialUse(Prefix),
                                              1, Len(Prefix)))
    /\ IsCall(1) => (Stored.live_on_entry = {} /\ Stored.killed_in_block = {})

\* A full-width store, a call, and a load of another register after the
\* call: the stored state knows of the store only.
C20_Witness ==
  /\ Done /\ Len(func) = 3
  /\ IsFullWidthStore(1) /\ IsCall(2) /\ IsMappedLoad(3) /\ RegOf(3) # RegOf(1)
  /\ Stored.killed_in_block = {RegOf(1)}
  /\ Stored.live_on_entry = {}

====
